---- MODULE Spec2Model ----
(***************************************************************************)
(* Model of code.py of boing-from-scratch: the base64 wire encoder send,   *)
(* the palette rotation of sendPalette and the polling loop of main.       *)
(* Text is modelled as sequences of ASCII codes, buffers as sequences of   *)
(* bytes 0..255 (index 1 of the model is index 0 of the program).          *)
(***************************************************************************)
EXTENDS Integers, Sequences, FiniteSets, TLC

----------------------------------------------------------------------------
(* Bounds of the model *)

\* number of polls of the main loop that the model follows
MaxTicks == 4
\* send is tried on every buffer over SendBytes of length 0..MaxLen
MaxLen == 3
\* send is tried with every stride 1..MaxSmallStride (besides 6 and 60)
MaxSmallStride == 3
\* the rotation update is tried on every delta in -MaxDelta..MaxDelta
MaxDelta == 20
\* length of the frame buffer the main loop sends
FrameLen == 61
\* number of polls of the main loop followed where progress is checked
LiveTicks == 2

----------------------------------------------------------------------------
(* Program constants *)

\* send: stride = 60
stride60 == 60
\* main: angle = (16 + angle + d) & 7
bias == 16
mask == 7
\* initPalette: Palette(16)
n == 16
\* main: Bitmap(w, h, 11), the number of values a pixel can take
values == 11
\* sendPalette: the first rotating index (start = 4 + angle)
zone == 4
\* rotation modulus: angle ranges over 0..K-1
K == mask + 1

Unbound == -1          \* a Python local that has not been assigned yet
NoFault == "none"

Tags == {"FRAME", "PALETTE"}

----------------------------------------------------------------------------
(* Python helpers *)

\* buf[a:b] for 0 <= a, as Python slices: clipped to the length of buf
Slice(b, from, to) ==
    LET hi == IF to < Len(b) THEN to ELSE Len(b)
    IN  IF from >= hi THEN << >> ELSE [k \in 1..(hi - from) |-> b[from + k]]

\* list(range(a, b))
Range(a, b) == IF b <= a THEN << >> ELSE [k \in 1..(b - a) |-> a + k - 1]

\* x & y for y >= 0 on Python's unbounded two's complement integers
RECURSIVE BitAnd(_, _)
BitAnd(x, y) ==
    IF y = 0 THEN 0
    ELSE (x % 2) * (y % 2) + 2 * BitAnd(x \div 2, y \div 2)

\* x >> k
Shr(x, k) == x \div (2 ^ k)

----------------------------------------------------------------------------
(* binascii: base64 *)

\* the base64 alphabet: sextet 0..63 to ASCII code
B64Char(v) ==
    IF v < 26 THEN 65 + v
    ELSE IF v < 52 THEN 97 + (v - 26)
    ELSE IF v < 62 THEN 48 + (v - 52)
    ELSE IF v = 62 THEN 43 ELSE 47

\* ASCII code to sextet ('=' counts as 0)
B64Val(ch) ==
    IF ch >= 65 /\ ch <= 90 THEN ch - 65
    ELSE IF ch >= 97 /\ ch <= 122 THEN ch - 71
    ELSE IF ch >= 48 /\ ch <= 57 THEN ch + 4
    ELSE IF ch = 43 THEN 62
    ELSE IF ch = 47 THEN 63 ELSE 0

Pad == 61              \* '='
Newline == 10          \* '\n'

\* b2a_base64(b): one line of base64 with '=' padding and a trailing newline
b2a_base64(b) ==
    LET len == Len(b)
        groups == (len + 2) \div 3
        byte(k) == IF k <= len THEN b[k] ELSE 0
        word(q) == byte(3*q + 1) * 65536 + byte(3*q + 2) * 256 + byte(3*q + 3)
        char(q, r) ==
            IF (r = 2 /\ 3*q + 2 > len) \/ (r = 3 /\ 3*q + 3 > len)
            THEN Pad
            ELSE B64Char((word(q) \div (64 ^ (3 - r))) % 64)
    IN  [k \in 1..(4 * groups + 1) |->
            IF k = 4 * groups + 1 THEN Newline
            ELSE char((k - 1) \div 4, (k - 1) % 4)]

\* a2b_base64(line): the bytes a line of base64 stands for
a2b_base64(line) ==
    LET m == Len(line) - 1
        pads == Cardinality({k \in 1..m : line[k] = Pad})
        word(q) == B64Val(line[4*q + 1]) * 262144 + B64Val(line[4*q + 2]) * 4096
                   + B64Val(line[4*q + 3]) * 64 + B64Val(line[4*q + 4])
    IN  [j \in 1..(3 * (m \div 4) - pads) |->
            (word((j - 1) \div 3) \div (256 ^ (2 - ((j - 1) % 3)))) % 256]

----------------------------------------------------------------------------
(* State *)

VARIABLES
    pc,         \* position of the program
    fault,      \* the exception that stopped the program, or NoFault
    angle,      \* main: angle
    prevClick,  \* main: prevClick
    c, d,       \* main: the last reading (click(), delta())
    buf,        \* main: buf, the bytes of the bitmap
    palette,    \* main: pal, the colours of the Palette object
    order,      \* sendPalette: order
    sbuf, stag, \* send: the arguments buf and tag
    stride,     \* send: stride
    i, last,    \* send: i and last
    it,         \* send: the next value of range(0, len(buf), stride)
    ret,        \* where the running send returns to
    sink,       \* stdout: the sequence of writes
    cause,      \* history: why the running send was called
    note,       \* history: for each write its cause, tick and source line
    hist,       \* history: one record per poll of the main loop
    limit,      \* the number of polls of the main loop that the model follows
    rt          \* the rotation update applied to chosen inputs

vars == << pc, fault, angle, prevClick, c, d, buf, palette, order, sbuf, stag, stride,
           i, last, it, ret, sink, cause, note, hist, limit, rt >>

mainVars == << angle, prevClick, c, d, buf, palette, order, hist, limit >>
sendLocals == << i, last, it >>

----------------------------------------------------------------------------
(* initPalette *)

\* the Palette object that initPalette returns
pal == [k \in 0..(n - 1) |-> IF k < 8 THEN 16777215 ELSE 16711680]

----------------------------------------------------------------------------
(* sendPalette *)

\* Order with start = 4 + angle + 1
Order_late(a) ==
    LET start == zone + a + 1
    IN  << 0, 1, 2, 3 >> \o Range(start, n) \o Range(zone, start)

\* Order rotating the whole table, without fixed colours
Order_whole(a) == Range(a, n) \o Range(0, a)

\* order = [0, 1, 2, 3] + list(range(start, n)) + list(range(4, start))
Order(a) ==
    LET start == zone + a
    IN  << 0, 1, 2, 3 >> \o Range(start, n) \o Range(zone, start)

\* data: three bytes per colour, most significant byte first
PalData(p, ord) ==
    [m \in 1..(n * 3) |->
        LET col == p[ord[((m - 1) \div 3) + 1]]
            r == (m - 1) % 3
        IN  IF r = 0 THEN BitAnd(Shr(col, 16), 255)
            ELSE IF r = 1 THEN BitAnd(Shr(col, 8), 255)
            ELSE BitAnd(col, 255)]

\* assert ((0 <= angle) and (angle <= 7))
AngleOk(a) == (0 <= a) /\ (a <= 7)

----------------------------------------------------------------------------
(* stdout and the call of send *)

Marker(kind, tag) == [kind |-> kind, tag |-> tag, text |-> << >>]
Chunk(text) == [kind |-> "CHUNK", tag |-> "", text |-> text]

\* stdout.write of each item of items; lines[k] is the source line of items[k]
Write(items, lines) ==
    /\ sink' = sink \o items
    /\ note' = note \o [k \in 1..Len(items) |->
                           [why |-> cause, tick |-> Len(hist), line |-> lines[k]]]

\* send(b, tag) is entered; r is the position after the call
CallSend(b, tag, r) ==
    /\ sbuf' = b
    /\ stag' = tag
    /\ ret' = r
    /\ pc' = "send"

\* sendPalette(pal, a) is entered; r is the position after the call
CallSendPalette(a, r) ==
    IF AngleOk(a)
    THEN /\ order' = Order(a)
         /\ CallSend(PalData(palette, Order(a)), "PALETTE", r)
         /\ fault' = fault
    ELSE /\ pc' = "fault"
         /\ fault' = "AssertionError"
         /\ UNCHANGED << order, sbuf, stag, ret >>

----------------------------------------------------------------------------
(* send *)

\* wr('\n-----BEGIN %s-----\n' % tag); stride = 60; last = 0; the loop starts
send_begin ==
    /\ pc = "send"
    /\ Write(<< Marker("BEGIN", stag) >>, << 50 >>)
    /\ i' = Unbound
    /\ last' = 0
    /\ it' = 0
    /\ pc' = "loop"
    /\ UNCHANGED << fault, mainVars, sbuf, stag, stride, ret, cause, rt >>

\* send_loop with the slice buf[i:i+stride-1]
send_loop_short ==
    /\ pc = "loop"
    /\ it < Len(sbuf)
    /\ i' = it
    /\ Write(<< Chunk(b2a_base64(Slice(sbuf, it, it + stride - 1))) >>, << 54 >>)
    /\ last' = it
    /\ it' = it + stride
    /\ UNCHANGED << pc, fault, mainVars, sbuf, stag, stride, ret, cause, rt >>

\* one iteration of: for i in range(0, len(buf), stride)
send_loop ==
    /\ pc = "loop"
    /\ it < Len(sbuf)
    /\ i' = it
    /\ Write(<< Chunk(b2a_base64(Slice(sbuf, it, it + stride))) >>, << 54 >>)
    /\ last' = it
    /\ it' = it + stride
    /\ UNCHANGED << pc, fault, mainVars, sbuf, stag, stride, ret, cause, rt >>

\* send_end that writes the END marker of a FRAME block for every tag
send_end_frame ==
    /\ pc = "loop"
    /\ it >= Len(sbuf)
    /\ IF i = Unbound
       THEN /\ pc' = "fault"
            /\ fault' = "NameError"
            /\ UNCHANGED << sink, note >>
       ELSE /\ IF i + stride < Len(sbuf)
               THEN Write(<< Chunk(b2a_base64(Slice(sbuf, i + stride, Len(sbuf)))),
                             Marker("END", "FRAME") >>, << 57, 58 >>)
               ELSE Write(<< Marker("END", "FRAME") >>, << 58 >>)
            /\ pc' = ret
            /\ fault' = fault
    /\ UNCHANGED << mainVars, sbuf, stag, stride, sendLocals, ret, cause, rt >>

\* send_end with the test i + stride <= len(buf)
send_end_le ==
    /\ pc = "loop"
    /\ it >= Len(sbuf)
    /\ IF i = Unbound
       THEN /\ pc' = "fault"
            /\ fault' = "NameError"
            /\ UNCHANGED << sink, note >>
       ELSE /\ IF i + stride <= Len(sbuf)
               THEN Write(<< Chunk(b2a_base64(Slice(sbuf, i + stride, Len(sbuf)))),
                             Marker("END", stag) >>, << 57, 58 >>)
               ELSE Write(<< Marker("END", stag) >>, << 58 >>)
            /\ pc' = ret
            /\ fault' = fault
    /\ UNCHANGED << mainVars, sbuf, stag, stride, sendLocals, ret, cause, rt >>

\* the loop is over: if i + stride < len(buf): ...; wr('-----END %s-----\n')
send_end ==
    /\ pc = "loop"
    /\ it >= Len(sbuf)
    /\ IF i = Unbound
       THEN /\ pc' = "fault"
            /\ fault' = "NameError"
            /\ UNCHANGED << sink, note >>
       ELSE /\ IF i + stride < Len(sbuf)
               THEN Write(<< Chunk(b2a_base64(Slice(sbuf, i + stride, Len(sbuf)))),
                             Marker("END", stag) >>, << 57, 58 >>)
               ELSE Write(<< Marker("END", stag) >>, << 58 >>)
            /\ pc' = ret
            /\ fault' = fault
    /\ UNCHANGED << mainVars, sbuf, stag, stride, sendLocals, ret, cause, rt >>

send == send_begin \/ send_loop \/ send_end

----------------------------------------------------------------------------
(* main *)

\* Succ of a loop body that runs once (if True in place of while True)
Succ_once == [p \in {"poll", "click", "prev", "rot"} |->
                 IF p = "poll" THEN "click"
                 ELSE IF p = "click" THEN "prev"
                 ELSE IF p = "prev" THEN "rot"
                 ELSE "exit"]

\* Succ with the rotate statement ahead of the click statement
Succ_rotFirst == [p \in {"poll", "click", "prev", "rot"} |->
                     IF p = "poll" THEN "rot"
                     ELSE IF p = "rot" THEN "click"
                     ELSE IF p = "click" THEN "prev"
                     ELSE "poll"]

\* the order of the statements of the loop body
Succ == [p \in {"poll", "click", "prev", "rot"} |->
            IF p = "poll" THEN "click"
            ELSE IF p = "click" THEN "prev"
            ELSE IF p = "prev" THEN "rot"
            ELSE "poll"]

\* Rotate with the remainder of a language that truncates towards zero
Rotate_trunc(a, dd) ==
    LET x == bias + a + dd
    IN  IF x >= 0 THEN x % (mask + 1) ELSE 0 - ((0 - x) % (mask + 1))

\* Rotate with a bias of half the modulus
Rotate_half(a, dd) == BitAnd(((mask + 1) \div 2) + a + dd, mask)

\* angle = (16 + angle + d) & 7
Rotate(a, dd) == BitAnd(bias + a + dd, mask)

\* the readings that encoder_delta() gives in the model
Deltas == {-18, -2, 0, 1}

\* the bytes of the painted bitmap, cut to FrameLen bytes: two pixels of
\* value 8 per byte (136), with a pixel of value 0 now and then (8)
FrameBuf == [k \in 1..FrameLen |-> IF k % 5 = 1 THEN 8 ELSE 136]

\* main_palette that sends the palette of angle 1
main_palette_rot ==
    /\ pc = "L145"
    /\ angle' = 0
    /\ cause' = "init"
    /\ CallSendPalette(1, "L146")
    /\ UNCHANGED << prevClick, c, d, buf, palette, limit, stride, sendLocals, sink, note, hist, rt >>

\* angle = 0; sendPalette(pal, angle)
main_palette ==
    /\ pc = "L145"
    /\ angle' = 0
    /\ cause' = "init"
    /\ CallSendPalette(0, "L146")
    /\ UNCHANGED << prevClick, c, d, buf, palette, limit, stride, sendLocals, sink, note, hist, rt >>

\* send(buf, 'FRAME')
main_frame ==
    /\ pc = "L146"
    /\ CallSend(buf, "FRAME", "L148")
    /\ UNCHANGED << fault, mainVars, stride, sendLocals, sink, cause, note, rt >>

\* prevClick = False
main_prevClick ==
    /\ pc = "L148"
    /\ prevClick' = FALSE
    /\ pc' = "poll"
    /\ UNCHANGED << fault, angle, c, d, buf, palette, limit, order, hist, sbuf, stag, stride,
                    sendLocals, ret, sink, cause, note, rt >>

\* sleep(0.02); (c, d) = (click(), delta())
poll ==
    /\ pc = "poll"
    /\ Len(hist) < limit
    /\ \E cc \in BOOLEAN, dd \in Deltas :
          /\ c' = cc
          /\ d' = dd
          /\ hist' = Append(hist, [c |-> cc, d |-> dd, click |-> FALSE,
                                   rot |-> FALSE, angle |-> angle])
    /\ pc' = Succ["poll"]
    /\ UNCHANGED << fault, angle, prevClick, buf, palette, limit, order, sbuf, stag, stride,
                    sendLocals, ret, sink, cause, note, rt >>

\* click that sends the palette in place of the frame
click_palette ==
    /\ pc = "click"
    /\ IF c /\ (c # prevClick)
       THEN /\ cause' = "click"
            /\ hist' = [hist EXCEPT ![Len(hist)].click = TRUE]
            /\ CallSend(PalData(palette, Order(angle)), "PALETTE", Succ["click"])
       ELSE /\ pc' = Succ["click"]
            /\ UNCHANGED << cause, hist, sbuf, stag, ret >>
    /\ UNCHANGED << fault, angle, prevClick, c, d, buf, palette, limit, order, stride,
                    sendLocals, sink, note, rt >>

\* click that tests the level of the button: if c
click_level ==
    /\ pc = "click"
    /\ IF c
       THEN /\ cause' = "click"
            /\ hist' = [hist EXCEPT ![Len(hist)].click = TRUE]
            /\ CallSend(buf, "FRAME", Succ["click"])
       ELSE /\ pc' = Succ["click"]
            /\ UNCHANGED << cause, hist, sbuf, stag, ret >>
    /\ UNCHANGED << fault, angle, prevClick, c, d, buf, palette, limit, order, stride,
                    sendLocals, sink, note, rt >>

\* if c and (c != prevClick): send(buf, 'FRAME'); col()
click ==
    /\ pc = "click"
    /\ IF c /\ (c # prevClick)
       THEN /\ cause' = "click"
            /\ hist' = [hist EXCEPT ![Len(hist)].click = TRUE]
            /\ CallSend(buf, "FRAME", Succ["click"])
       ELSE /\ pc' = Succ["click"]
            /\ UNCHANGED << cause, hist, sbuf, stag, ret >>
    /\ UNCHANGED << fault, angle, prevClick, c, d, buf, palette, limit, order, stride,
                    sendLocals, sink, note, rt >>

\* prev that keeps the old value of prevClick
prev_stale ==
    /\ pc = "prev"
    /\ prevClick' = prevClick
    /\ pc' = Succ["prev"]
    /\ UNCHANGED << fault, angle, c, d, buf, palette, limit, order, hist, sbuf, stag, stride,
                    sendLocals, ret, sink, cause, note, rt >>

\* prevClick = c
prev ==
    /\ pc = "prev"
    /\ prevClick' = c
    /\ pc' = Succ["prev"]
    /\ UNCHANGED << fault, angle, c, d, buf, palette, limit, order, hist, sbuf, stag, stride,
                    sendLocals, ret, sink, cause, note, rt >>

\* rot that also repaints the first byte of the bitmap for the new angle
rot_paint ==
    /\ pc = "rot"
    /\ IF d # 0
       THEN /\ angle' = Rotate(angle, d)
            /\ cause' = "rotate"
            /\ hist' = [hist EXCEPT ![Len(hist)].rot = TRUE,
                                    ![Len(hist)].angle = Rotate(angle, d)]
            /\ buf' = [buf EXCEPT ![1] = Rotate(angle, d)]
            /\ CallSendPalette(Rotate(angle, d), "L160")
       ELSE /\ pc' = Succ["rot"]
            /\ UNCHANGED << fault, angle, cause, hist, order, sbuf, stag, ret, buf >>
    /\ UNCHANGED << prevClick, c, d, palette, limit, stride, sendLocals, sink, note, rt >>

\* rot that calls sendPalette before it updates angle
rot_stale ==
    /\ pc = "rot"
    /\ IF d # 0
       THEN /\ angle' = Rotate(angle, d)
            /\ cause' = "rotate"
            /\ hist' = [hist EXCEPT ![Len(hist)].rot = TRUE,
                                    ![Len(hist)].angle = Rotate(angle, d)]
            /\ CallSendPalette(angle, "L160")
       ELSE /\ pc' = Succ["rot"]
            /\ UNCHANGED << fault, angle, cause, hist, order, sbuf, stag, ret >>
    /\ UNCHANGED << prevClick, c, d, buf, palette, limit, stride, sendLocals, sink, note, rt >>

\* rot that stores the rotated colours back into the palette
rot_store ==
    /\ pc = "rot"
    /\ IF d # 0
       THEN /\ angle' = Rotate(angle, d)
            /\ cause' = "rotate"
            /\ hist' = [hist EXCEPT ![Len(hist)].rot = TRUE,
                                    ![Len(hist)].angle = Rotate(angle, d)]
            /\ palette' = [k \in 0..(n - 1) |-> palette[Order(Rotate(angle, d))[k + 1]]]
            /\ CallSendPalette(Rotate(angle, d), "L160")
       ELSE /\ pc' = Succ["rot"]
            /\ UNCHANGED << fault, angle, cause, hist, order, sbuf, stag, ret, palette >>
    /\ UNCHANGED << prevClick, c, d, buf, limit, stride, sendLocals, sink, note, rt >>

\* if d != 0: angle = (16 + angle + d) & 7; sendPalette(pal, angle)
rot ==
    /\ pc = "rot"
    /\ IF d # 0
       THEN /\ angle' = Rotate(angle, d)
            /\ cause' = "rotate"
            /\ hist' = [hist EXCEPT ![Len(hist)].rot = TRUE,
                                    ![Len(hist)].angle = Rotate(angle, d)]
            /\ CallSendPalette(Rotate(angle, d), "L160")
       ELSE /\ pc' = Succ["rot"]
            /\ UNCHANGED << fault, angle, cause, hist, order, sbuf, stag, ret >>
    /\ UNCHANGED << prevClick, c, d, buf, palette, limit, stride, sendLocals, sink, note, rt >>

\* send(buf, 'FRAME'); col()   (the second statement of the rotate branch)
rot_frame ==
    /\ pc = "L160"
    /\ CallSend(buf, "FRAME", Succ["rot"])
    /\ UNCHANGED << fault, mainVars, stride, sendLocals, sink, cause, note, rt >>

main == main_palette \/ main_frame \/ main_prevClick \/ poll \/ click \/ prev
        \/ rot \/ rot_frame

NoRt == [step |-> 0, o |-> 0, d1 |-> 0, d2 |-> 0, a1 |-> 0, a2 |-> 0, a12 |-> 0]

\* the program when main reaches "SEND COLOR PALETTE AND FIRST FRAME"
Init ==
    /\ pc = "L145"
    /\ fault = NoFault
    /\ angle = 0
    /\ prevClick = FALSE
    /\ c = FALSE
    /\ d = 0
    /\ buf = FrameBuf
    /\ palette = pal
    /\ order = << >>
    /\ sbuf = << >>
    /\ stag = "FRAME"
    /\ stride = stride60
    /\ i = Unbound
    /\ last = 0
    /\ it = 0
    /\ ret = "L145"
    /\ sink = << >>
    /\ cause = "init"
    /\ note = << >>
    /\ hist = << >>
    /\ limit = MaxTicks
    /\ rt = NoRt

Next == main \/ send

Spec == Init /\ [][Next]_vars

\* Init, with fewer polls followed
InitLive ==
    /\ pc = "L145"
    /\ fault = NoFault
    /\ angle = 0
    /\ prevClick = FALSE
    /\ c = FALSE
    /\ d = 0
    /\ buf = FrameBuf
    /\ palette = pal
    /\ order = << >>
    /\ sbuf = << >>
    /\ stag = "FRAME"
    /\ stride = stride60
    /\ i = Unbound
    /\ last = 0
    /\ it = 0
    /\ ret = "L145"
    /\ sink = << >>
    /\ cause = "init"
    /\ note = << >>
    /\ hist = << >>
    /\ limit = LiveTicks
    /\ rt = NoRt

\* the program keeps running: it is the only thread and nothing suspends it
SpecLive == InitLive /\ [][Next]_vars /\ WF_vars(Next)

----------------------------------------------------------------------------
(* send on chosen buffers and strides *)

SendBytes == {0, 165, 255}

\* a buffer of len bytes that differ from their neighbours
PatternBuf(len) == [k \in 1..len |-> (k * 37 + 11) % 256]

LongLens == {10, 59, 60, 61, 120, 121}

SendBufs == UNION {[1..len -> SendBytes] : len \in 0..MaxLen}
            \cup {PatternBuf(len) : len \in LongLens}

Strides == (1..MaxSmallStride) \cup {6, stride60}

\* send(b, tag) is entered with a chosen buffer, tag and stride
InitSend ==
    /\ pc = "send"
    /\ fault = NoFault
    /\ angle = 0
    /\ prevClick = FALSE
    /\ c = FALSE
    /\ d = 0
    /\ buf = << >>
    /\ palette = pal
    /\ order = << >>
    /\ sbuf \in SendBufs
    /\ stag \in Tags
    /\ stride \in Strides
    /\ i = Unbound
    /\ last = 0
    /\ it = 0
    /\ ret = "done"
    /\ sink = << >>
    /\ cause = "call"
    /\ note = << >>
    /\ hist = << >>
    /\ limit = MaxTicks
    /\ rt = NoRt

NextSend == send

SpecSend == InitSend /\ [][NextSend]_vars

----------------------------------------------------------------------------
(* the rotation update on chosen offsets and deltas *)

\* (TLC's integers have 32 bits: the sum of two deltas and the bias must fit)
RotDeltas == ((0 - MaxDelta)..MaxDelta) \cup {-1000000001, 1000000007}

\* angle = o, d = d1: angle = (16 + angle + d) & 7
rotate_first ==
    /\ rt.step = 0
    /\ rt' = [rt EXCEPT !.step = 1, !.a1 = Rotate(rt.o, rt.d1)]
    /\ UNCHANGED << pc, fault, mainVars, sbuf, stag, stride, sendLocals, ret,
                    sink, cause, note >>

\* d = d2, on the angle the first update left
rotate_second ==
    /\ rt.step = 1
    /\ rt' = [rt EXCEPT !.step = 2, !.a2 = Rotate(rt.a1, rt.d2)]
    /\ UNCHANGED << pc, fault, mainVars, sbuf, stag, stride, sendLocals, ret,
                    sink, cause, note >>

\* angle = o, d = d1 + d2
rotate_sum ==
    /\ rt.step = 2
    /\ rt' = [rt EXCEPT !.step = 3, !.a12 = Rotate(rt.o, rt.d1 + rt.d2)]
    /\ UNCHANGED << pc, fault, mainVars, sbuf, stag, stride, sendLocals, ret,
                    sink, cause, note >>

InitRot ==
    /\ pc = "rotate"
    /\ fault = NoFault
    /\ angle = 0
    /\ prevClick = FALSE
    /\ c = FALSE
    /\ d = 0
    /\ buf = << >>
    /\ palette = pal
    /\ order = << >>
    /\ sbuf = << >>
    /\ stag = "FRAME"
    /\ stride = stride60
    /\ i = Unbound
    /\ last = 0
    /\ it = 0
    /\ ret = "rotate"
    /\ sink = << >>
    /\ cause = "call"
    /\ note = << >>
    /\ hist = << >>
    /\ limit = MaxTicks
    /\ \E o \in 0..(K - 1), d1 \in RotDeltas, d2 \in RotDeltas :
          rt = [NoRt EXCEPT !.o = o, !.d1 = d1, !.d2 = d2]

NextRot == rotate_first \/ rotate_second \/ rotate_sum

SpecRot == InitRot /\ [][NextRot]_vars

----------------------------------------------------------------------------
(* Reading the sink *)

\* the bytes that the chunk lines among the writes lo..hi of s stand for, in
\* line order (halving the range keeps the evaluation shallow)
RECURSIVE DecodeRange(_, _, _)
DecodeRange(s, lo, hi) ==
    IF lo > hi THEN << >>
    ELSE IF lo = hi
         THEN (IF s[lo].kind = "CHUNK" THEN a2b_base64(s[lo].text) ELSE << >>)
         ELSE LET mid == (lo + hi) \div 2
              IN  DecodeRange(s, lo, mid) \o DecodeRange(s, mid + 1, hi)

\* the bytes that the chunk lines of s stand for, in line order
DecodeLines(s) == DecodeRange(s, 1, Len(s))

\* the index of the first marker after write k (0 when there is none)
RECURSIVE BlockEnd(_)
BlockEnd(k) ==
    IF k >= Len(sink) THEN 0
    ELSE IF sink[k + 1].kind # "CHUNK" THEN k + 1
    ELSE BlockEnd(k + 1)

\* the payload of the block whose BEGIN marker is write k
Payload(k) == DecodeLines(SubSeq(sink, k + 1, BlockEnd(k) - 1))

\* the BEGIN markers of the complete blocks with the given tag
Blocks(tag) ==
    {k \in 1..Len(sink) : /\ sink[k] = Marker("BEGIN", tag)
                          /\ BlockEnd(k) # 0
                          /\ sink[BlockEnd(k)] = Marker("END", tag)}

\* the tags of the blocks begun in tick t among the writes lo..hi of the
\* sink, in the order of the sink
RECURSIVE BeginRange(_, _, _)
BeginRange(lo, hi, t) ==
    IF lo > hi THEN << >>
    ELSE IF lo = hi
         THEN (IF sink[lo].kind = "BEGIN" /\ note[lo].tick = t
               THEN << sink[lo].tag >> ELSE << >>)
         ELSE LET mid == (lo + hi) \div 2
              IN  BeginRange(lo, mid, t) \o BeginRange(mid + 1, hi, t)

\* the tags of the blocks begun in tick t, in the order of the sink
BeginTags(t) == BeginRange(1, Len(sink), t)

CeilDiv(a, b) == (a + b - 1) \div b

\* the send has returned or faulted
SendOver == pc \in {"done", "fault"}

\* tick t of the main loop has run to its end
TickOver(t) == t < Len(hist) \/ pc = "poll"

----------------------------------------------------------------------------
(* Properties of send *)

\* C1: when send is over, decoding the chunk lines it wrote, in line order,
\* and concatenating the results gives the buffer it was called with, also
\* when the length of the buffer is not a multiple of the stride.
C1_Lossless == SendOver => DecodeLines(sink) = sbuf

\* a buffer of more than one chunk with a partial last chunk was sent
C1_Witness ==
    /\ pc = "done"
    /\ Len(sbuf) > stride
    /\ Len(sbuf) % stride # 0
    /\ sink[Len(sink)] = Marker("END", stag)
    /\ DecodeLines(sink) = sbuf

\* C2: for a buffer of length L > 0 send writes exactly ceil(L / stride)
\* chunk lines, each of stride bytes but the last, which has the
\* L - stride * (ceil(L / stride) - 1) bytes that remain; the write of the
\* branch after the loop (line 57) never happens.
C2_ChunkCount ==
    (pc = "done" /\ Len(sbuf) > 0) =>
        LET cnt == CeilDiv(Len(sbuf), stride)
        IN  /\ Len(sink) = cnt + 2
            /\ \A j \in 1..cnt :
                  /\ sink[j + 1].kind = "CHUNK"
                  /\ Len(a2b_base64(sink[j + 1].text)) =
                        IF j < cnt THEN stride
                        ELSE Len(sbuf) - stride * (cnt - 1)
            /\ \A k \in 1..Len(note) : note[k].line # 57

\* 10 bytes with stride 6: a chunk of 6 bytes, then a chunk of 4 bytes
C2_Witness ==
    /\ pc = "done"
    /\ Len(sbuf) = 10
    /\ stride = 6
    /\ Len(sink) = 4
    /\ Len(a2b_base64(sink[2].text)) = 6
    /\ Len(a2b_base64(sink[3].text)) = 4

\* C3: send ends without a fault for every buffer, the empty one included.
C3_Total == fault = NoFault

----------------------------------------------------------------------------
(* Properties of the rotation *)

\* C4: angle is in 0..7 in every state of the main loop, the assertion of
\* sendPalette never fails, and from every angle the main loop reaches the
\* update gives a value in 0..7 for every delta, negative ones included.
C4_AngleInRange ==
    /\ angle \in 0..(K - 1)
    /\ fault # "AssertionError"
    /\ \A dd \in RotDeltas : Rotate(angle, dd) \in 0..(K - 1)

\* a negative delta below -16 was read at angle 0 and the palette was sent
C4_Witness ==
    /\ Len(hist) >= 1
    /\ hist[1].d = -18
    /\ hist[1].rot
    /\ angle = 6
    /\ Blocks("PALETTE") # {}
    /\ pc = "poll"

\* C5: updating the angle with d1 and then with d2 gives the angle that one
\* update with d1 + d2 gives.
C5_GroupAction == rt.step = 3 => rt.a2 = rt.a12

\* both deltas wrap: the first below 0, the second past 7
C5_Witness ==
    /\ rt.step = 3
    /\ rt.o = 3
    /\ rt.d1 = -18
    /\ rt.d2 = 13
    /\ rt.a1 = 1
    /\ rt.a2 = 6
    /\ rt.a12 = 6

\* C6, as stated: newOffset = (currentOffset + delta + bias) mod K with a
\* bias of half of K.
C6_HalfBias == rt.step >= 1 => rt.a1 = (rt.o + rt.d1 + K \div 2) % K

\* C6, amended: newOffset = (currentOffset + delta + bias) mod K with a bias
\* of twice K (16), so that newOffset = (currentOffset + delta) mod K.
C6_BiasTwiceK ==
    /\ bias = 2 * K
    /\ rt.step >= 1 =>
          /\ rt.a1 = (rt.o + rt.d1 + bias) % K
          /\ rt.a1 = (rt.o + rt.d1) % K

\* a negative delta of more than the bias
C6_Witness ==
    /\ rt.step = 1
    /\ rt.o = 2
    /\ rt.d1 = -19
    /\ rt.a1 = 7

----------------------------------------------------------------------------
(* Properties of sendPalette *)

\* C7: the order sendPalette builds has length n, holds every index of
\* 0..n-1 once, and has at slot 4 + j the index 4 + ((j + angle) mod (n - 4))
\* for j in 0..n-5.
C7_OrderRotated ==
    order # << >> =>
        /\ Len(order) = n
        /\ \A x \in 0..(n - 1) :
              Cardinality({k \in 1..n : order[k] = x}) = 1
        /\ \A j \in 0..(n - 5) :
              order[4 + j + 1] = 4 + ((j + angle) % (n - 4))

\* the order for angle 5
C7_Witness ==
    /\ angle = 5
    /\ order = << 0, 1, 2, 3, 9, 10, 11, 12, 13, 14, 15, 4, 5, 6, 7, 8 >>

\* the bytes of colour col, most significant first
Rgb(col) == << col \div 65536, (col \div 256) % 256, col % 256 >>

\* the BEGIN marker of the block that write k belongs to
RECURSIVE BlockBegin(_)
BlockBegin(k) == IF k <= 1 \/ sink[k].kind = "BEGIN" THEN k ELSE BlockBegin(k - 1)

\* C8: in every PALETTE block written the slots 0, 1, 2, 3 carry the colours
\* of the palette entries 0, 1, 2, 3, in that order, after any sequence of
\* rotations (each block is read in the state in which its END marker is the
\* last write of the sink).
C8_AnchorsFixed ==
    /\ order # << >> => SubSeq(order, 1, 4) = << 0, 1, 2, 3 >>
    /\ (sink # << >> /\ sink[Len(sink)] = Marker("END", "PALETTE")) =>
          LET data == Payload(BlockBegin(Len(sink)))
          IN  /\ Len(data) = 3 * n
              /\ SubSeq(data, 1, 12) =
                    Rgb(pal[0]) \o Rgb(pal[1]) \o Rgb(pal[2]) \o Rgb(pal[3])

\* a PALETTE block was sent for a rotation to angle 7, after an earlier one
C8_Witness ==
    /\ angle = 7
    /\ Cardinality({k \in 1..Len(sink) : sink[k] = Marker("BEGIN", "PALETTE")}) >= 3
    /\ sink[Len(sink)] = Marker("END", "PALETTE")
    /\ note[Len(note)].why = "rotate"

----------------------------------------------------------------------------
(* Properties of the main loop *)

\* the button reads pressed in tick t and did not in tick t - 1
Edge(t) == hist[t].c /\ (t = 1 \/ ~hist[t - 1].c)

\* the blocks that the click branch began in tick t
ClickBlocks(t) ==
    {k \in 1..Len(sink) : /\ sink[k].kind = "BEGIN"
                          /\ note[k].why = "click"
                          /\ note[k].tick = t}

\* C9: the click branch runs in tick t exactly if the button reads pressed
\* in tick t and did not in tick t - 1 (not at all before the first tick),
\* and it sends one block then: never while held, never on release.
C9_ClickEdge ==
    \A t \in 1..Len(hist) :
        /\ (t < Len(hist) \/ pc # "click") => (hist[t].click <=> Edge(t))
        /\ TickOver(t) =>
              Cardinality(ClickBlocks(t)) = (IF Edge(t) THEN 1 ELSE 0)

\* pressed for three ticks, then released: one click, in the first tick
C9_Witness ==
    /\ Len(hist) = 4
    /\ pc = "poll"
    /\ hist[1].c /\ hist[2].c /\ hist[3].c /\ ~hist[4].c
    /\ hist[1].click /\ ~hist[2].click /\ ~hist[3].click /\ ~hist[4].click
    /\ Cardinality(ClickBlocks(1)) = 1

\* C10: in the sink every write of the click branch of a tick comes before
\* every write of the rotate branch of that tick (no write of the rotate
\* branch is followed by one of the click branch of the same tick), the
\* writes of a tick come after those of the ticks before it, every write of a
\* tick is one of these two branches, and the blocks of a finished tick are
\* those of its decisions, in order: FRAME for a click, then PALETTE and
\* FRAME for a rotation.
C10_ClickBeforeRotate ==
    /\ \A k \in 1..(Len(sink) - 1) :
          /\ note[k].tick <= note[k + 1].tick
          /\ note[k].tick = note[k + 1].tick =>
                ~(note[k].why = "rotate" /\ note[k + 1].why = "click")
    /\ \A k \in 1..Len(sink) :
          note[k].why \in (IF note[k].tick = 0 THEN {"init"} ELSE {"click", "rotate"})
    /\ \A t \in 1..Len(hist) :
          TickOver(t) =>
              BeginTags(t) =
                  (IF hist[t].click THEN << "FRAME" >> ELSE << >>)
                  \o (IF hist[t].rot THEN << "PALETTE", "FRAME" >> ELSE << >>)

\* a tick with a click edge and a delta: FRAME, then PALETTE and FRAME
C10_Witness ==
    /\ Len(hist) >= 1
    /\ pc = "poll"
    /\ hist[Len(hist)].click
    /\ hist[Len(hist)].rot
    /\ BeginTags(Len(hist)) = << "FRAME", "PALETTE", "FRAME" >>

----------------------------------------------------------------------------
(* Properties of the blocks the main loop sends *)

\* the palette index whose colour slot s of a PALETTE block carries at angle a
SlotIndex(a, s) == IF s < 4 THEN s ELSE 4 + ((s - 4 + a) % (n - 4))

\* the payload of a PALETTE block for angle a, from the colours of initPalette
PalBytes(a) ==
    [m \in 1..(3 * n) |-> Rgb(pal[SlotIndex(a, (m - 1) \div 3)])[((m - 1) % 3) + 1]]

\* the number of writes of the PALETTE block and the FRAME block of startup
StartLen == (2 + CeilDiv(3 * n, stride)) + (2 + CeilDiv(Len(buf), stride))

\* the angle after tick t (0 before the first tick)
AngleAt(t) == IF t = 0 THEN 0 ELSE hist[t].angle

\* C11: when the startup sends are over and no reading was taken yet, the
\* sink holds exactly one PALETTE block with the palette in the order 0..15
\* followed by one FRAME block with the bytes of buf; the sink only grows, and
\* whenever a reading has been taken these writes are in the sink, made
\* before the first poll.
C11_StartupSend ==
    /\ [](pc = "L148" =>
            /\ hist = << >>
            /\ angle = 0
            /\ order = Range(0, n)
            /\ Len(sink) = StartLen
            /\ BeginRange(1, Len(sink), 0) = << "PALETTE", "FRAME" >>
            /\ Blocks("PALETTE") = {1}
            /\ Payload(1) = PalBytes(0)
            /\ Blocks("FRAME") = {BlockEnd(1) + 1}
            /\ Payload(BlockEnd(1) + 1) = buf)
    /\ [](Len(hist) >= 1 =>
            /\ Len(sink) >= StartLen
            /\ \A k \in 1..Len(sink) : note[k].tick = 0 <=> k <= StartLen)
    /\ [][Len(sink') >= Len(sink) /\ SubSeq(sink', 1, Len(sink)) = sink]_vars

\* the startup sends are over: PALETTE, then FRAME, before any reading
C11_Witness ==
    /\ pc = "L148"
    /\ hist = << >>
    /\ sink[1] = Marker("BEGIN", "PALETTE")
    /\ sink[4] = Marker("BEGIN", "FRAME")
    /\ sink[Len(sink)] = Marker("END", "FRAME")

\* the tags of the blocks that branch w began in tick t among the writes
\* lo..hi of the sink, in the order of the sink
RECURSIVE WhyRange(_, _, _, _)
WhyRange(lo, hi, t, w) ==
    IF lo > hi THEN << >>
    ELSE IF lo = hi
         THEN (IF sink[lo].kind = "BEGIN" /\ note[lo].tick = t /\ note[lo].why = w
               THEN << sink[lo].tag >> ELSE << >>)
         ELSE LET mid == (lo + hi) \div 2
              IN  WhyRange(lo, mid, t, w) \o WhyRange(mid + 1, hi, t, w)

\* the tags of the blocks that branch w began in tick t
WhyTags(t, w) == WhyRange(1, Len(sink), t, w)

\* the last write of the sink ends a block with this tag, sent by branch w
JustSent(tag, w) ==
    /\ sink # << >>
    /\ sink[Len(sink)] = Marker("END", tag)
    /\ note[Len(note)].why = w

\* C12, as stated: in a tick with a click edge the click branch sends a
\* FRAME block and a PALETTE block.
C12_ClickSendsBoth ==
    \A t \in 1..Len(hist) :
        (TickOver(t) /\ hist[t].click) =>
            \E k1, k2 \in 1..Len(WhyTags(t, "click")) :
                /\ WhyTags(t, "click")[k1] = "FRAME"
                /\ WhyTags(t, "click")[k2] = "PALETTE"

\* C12, amended: in a tick with a click edge the click branch sends one FRAME
\* block, with all bytes of buf, and no PALETTE block.
C12_ClickSendsFrame ==
    /\ \A t \in 1..Len(hist) :
          (TickOver(t) /\ hist[t].click) => WhyTags(t, "click") = << "FRAME" >>
    /\ JustSent("FRAME", "click") => Payload(BlockBegin(Len(sink))) = buf

\* a tick with a click edge and no delta sent one FRAME block and nothing else
C12_Witness ==
    /\ Len(hist) = 2
    /\ pc = "poll"
    /\ hist[2].click
    /\ hist[2].d = 0
    /\ BeginTags(2) = << "FRAME" >>
    /\ JustSent("FRAME", "click")

\* C13: in every tick with a non-zero delta, whatever the button reads, the
\* angle becomes (angle + delta) mod 8 and the rotate branch sends one PALETTE
\* block and then one FRAME block; the PALETTE block carries the colours in
\* the order of the updated angle; in a tick with delta 0 the rotate branch
\* does not run: the angle stays and the branch sends nothing.
C13_RotateEvent ==
    /\ \A t \in 1..Len(hist) :
          TickOver(t) =>
              /\ hist[t].rot <=> hist[t].d # 0
              /\ AngleAt(t) = (AngleAt(t - 1) + hist[t].d) % K
              /\ WhyTags(t, "rotate") =
                    (IF hist[t].d # 0 THEN << "PALETTE", "FRAME" >> ELSE << >>)
    /\ JustSent("PALETTE", "rotate") =>
          /\ angle = (AngleAt(Len(hist) - 1) + d) % K
          /\ Payload(BlockBegin(Len(sink))) = PalBytes(angle)

\* a rotation while the button is held: PALETTE of the new angle, then FRAME
C13_Witness ==
    /\ Len(hist) = 2
    /\ pc = "poll"
    /\ hist[1].c /\ hist[2].c
    /\ hist[1].d = 1 /\ hist[2].d = -18
    /\ AngleAt(1) = 1 /\ AngleAt(2) = 7
    /\ BeginTags(2) = << "PALETTE", "FRAME" >>

\* the last write of the sink ends a block with this tag
JustEnded(tag) == sink # << >> /\ sink[Len(sink)] = Marker("END", tag)

\* the BEGIN marker of the first FRAME block (it follows the first block)
FirstFrame == BlockEnd(1) + 1

\* C14: buf is never written after the startup paint, and every FRAME block
\* is, write for write, equal to the first FRAME block and carries the bytes
\* of the painted bitmap.
C14_RasterFixed ==
    /\ buf = FrameBuf
    /\ JustEnded("FRAME") =>
          /\ sink[FirstFrame] = Marker("BEGIN", "FRAME")
          /\ SubSeq(sink, BlockBegin(Len(sink)), Len(sink)) =
                SubSeq(sink, FirstFrame, BlockEnd(FirstFrame))
          /\ Payload(BlockBegin(Len(sink))) = FrameBuf

\* a FRAME block was sent for a click after two rotations
C14_Witness ==
    /\ Len(hist) = 3
    /\ hist[1].rot /\ hist[2].rot /\ hist[3].click
    /\ JustSent("FRAME", "click")
    /\ BlockBegin(Len(sink)) > FirstFrame
    /\ Payload(BlockBegin(Len(sink))) = Payload(FirstFrame)

----------------------------------------------------------------------------
(* Properties of sequences of rotations *)

\* the sum of the deltas read in the ticks s+1..t
RECURSIVE SumD(_, _)
SumD(s, t) == IF t <= s THEN 0 ELSE hist[t].d + SumD(s, t - 1)

\* the BEGIN marker of the PALETTE block sent in tick s (at startup for s = 0)
PalBlockOf(s) ==
    CHOOSE k \in 1..Len(sink) : sink[k] = Marker("BEGIN", "PALETTE") /\ note[k].tick = s

\* the writes of the block whose BEGIN marker is write k
BlockText(k) == SubSeq(sink, k, BlockEnd(k))

\* C15: when the deltas read in the ticks s+1..t sum up to a multiple of 8
\* the angle after tick t is the angle after tick s (the deltas +1, +1, -2
\* from angle 0 end at angle 0), and the PALETTE block sent in tick t is then,
\* write for write, the PALETTE block that was sent for the angle of tick s.
C15_RoundTrip ==
    /\ \A s \in 0..Len(hist), t \in 1..Len(hist) :
          (s < t /\ TickOver(t) /\ SumD(s, t) % K = 0) => AngleAt(t) = AngleAt(s)
    /\ JustSent("PALETTE", "rotate") =>
          \A s \in 0..(Len(hist) - 1) :
              (SumD(s, Len(hist)) % K = 0 /\ (s = 0 \/ hist[s].rot)) =>
                  BlockText(BlockBegin(Len(sink))) = BlockText(PalBlockOf(s))

\* the deltas +1, +1, -2 from angle 0: the PALETTE block of startup again
C15_Witness ==
    /\ Len(hist) = 3
    /\ hist[1].d = 1 /\ hist[2].d = 1 /\ hist[3].d = -2
    /\ AngleAt(1) = 1 /\ AngleAt(2) = 2
    /\ angle = 0
    /\ JustSent("PALETTE", "rotate")
    /\ BlockText(BlockBegin(Len(sink))) = BlockText(1)
    /\ BlockText(BlockBegin(Len(sink))) # BlockText(PalBlockOf(2))

----------------------------------------------------------------------------
(* Configuration *)

\* the configuration of the program does not fit: more pixel values than
\* palette entries, or a rotating zone (the indices 4..n-1) whose length is
\* not the modulus of the angle
ConfigFault == values > n \/ (n - zone) # K

----------------------------------------------------------------------------
(* Progress of the main loop *)

\* C17: the program never faults; a send loop runs at most ceil(len / 60)
\* times; in every state inside a tick or in a send a next step exists; a
\* reading can be taken whenever the loop is at its poll (within the ticks
\* the model follows); and from every state the program gets to the poll of
\* the loop.
C17_TickCompletes ==
    /\ [](fault = NoFault /\ pc # "fault")
    /\ [](pc = "loop" => it <= stride * CeilDiv(Len(sbuf), stride))
    /\ [](pc # "poll" => ENABLED Next)
    /\ []((pc = "poll" /\ Len(hist) < limit) => ENABLED poll)
    /\ (pc # "poll") ~> (pc = "poll")

\* two ticks, each with a click edge or a rotation, ran to the next poll
C17_Witness ==
    /\ Len(hist) = 2
    /\ pc = "poll"
    /\ hist[1].click /\ hist[1].rot
    /\ hist[2].rot
    /\ JustSent("FRAME", "rotate")

----------------------------------------------------------------------------
(* Form of the output *)

----------------------------------------------------------------------------
(* Ticks without a rotation *)

\* C19: a tick that read delta 0 leaves angle as it was; when it also saw no
\* click edge it wrote nothing to the sink, and when it saw a click edge it
\* wrote blocks; at every poll after the first, prevClick is the pressed
\* reading of the tick that has just ended, whatever that tick did.
C19_QuietTick ==
    /\ \A t \in 1..Len(hist) :
          TickOver(t) =>
             /\ hist[t].d = 0 => AngleAt(t) = AngleAt(t - 1)
             /\ (~Edge(t) /\ hist[t].d = 0) =>
                   \A k \in 1..Len(note) : note[k].tick # t
             /\ (Edge(t) /\ hist[t].d = 0) =>
                   \E k \in 1..Len(note) : note[k].tick = t /\ sink[k].kind = "BEGIN"
    /\ (pc = "poll" /\ Len(hist) >= 1) =>
          /\ prevClick = hist[Len(hist)].c
          /\ angle = AngleAt(Len(hist))

\* after a rotation to angle 1: a tick with a click edge and delta 0, then a
\* tick with the button held and delta 0, which wrote nothing
C19_Witness ==
    /\ Len(hist) = 3
    /\ pc = "poll"
    /\ hist[1].d = 1 /\ ~hist[1].c
    /\ hist[2].d = 0 /\ hist[2].c
    /\ hist[3].d = 0 /\ hist[3].c
    /\ BeginTags(2) = << "FRAME" >>
    /\ note[Len(note)].tick = 2
    /\ angle = 1
    /\ prevClick

----------------------------------------------------------------------------
(* The stored palette *)

\* C20: the palette is in every state the one initPalette made, and every
\* PALETTE block carries exactly 3 * n = 48 bytes, the colours of that
\* palette in the order of the angle it was sent for, and is write for write
\* equal to every earlier PALETTE block that was sent for the same angle.
C20_PaletteStore ==
    /\ palette = pal
    /\ JustEnded("PALETTE") =>
          LET b == BlockBegin(Len(sink))
          IN  /\ Len(Payload(b)) = 3 * n
              /\ Len(Payload(b)) = 48
              /\ Payload(b) = PalBytes(angle)
              /\ AngleAt(note[b].tick) = angle
              /\ \A k \in Blocks("PALETTE") :
                    AngleAt(note[k].tick) = angle => BlockText(k) = BlockText(b)

\* the angles 6, 7, 0, 6: the fourth tick sends the PALETTE block of the first
C20_Witness ==
    /\ Len(hist) = 4
    /\ hist[1].d = -2 /\ hist[2].d = 1 /\ hist[3].d = 1 /\ hist[4].d = -18
    /\ AngleAt(1) = 6 /\ AngleAt(2) = 7 /\ AngleAt(3) = 0
    /\ angle = 6
    /\ JustEnded("PALETTE")
    /\ palette = pal
    /\ Len(Payload(BlockBegin(Len(sink)))) = 48
    /\ BlockText(BlockBegin(Len(sink))) = BlockText(PalBlockOf(1))
    /\ BlockText(BlockBegin(Len(sink))) # BlockText(PalBlockOf(3))

====
